---- MODULE Spec2Model ----
(***************************************************************************)
(* A model of the transactions_parser library: the block text format       *)
(* (txt_format.rs: from_read, parse_transaction, write_to), the tabular    *)
(* adapter (csv_format.rs) and the streaming facades of lib.rs (Parser,    *)
(* Serializer).                                                            *)
(*                                                                         *)
(* A byte stream is a sequence of symbols.  A symbol is one byte ("\n",    *)
(* ":", "#", " ", a digit, ...) or a word: a fixed run of ordinary bytes   *)
(* (no newline, no ':', no '#', no white space) written as one symbol, so  *)
(* that the key TX_ID is the one-symbol text <<"TX_ID">>.  "0xFF" is a     *)
(* byte that is not valid UTF-8.                                           *)
(***************************************************************************)
EXTENDS Integers, Sequences, FiniteSets, TLC

VARIABLES
    input,      \* the bytes behind the reader (a Cursor over a byte buffer)
    pos,        \* the reader's cursor: how many bytes of input are consumed
    faultAt,    \* the source's read of byte number faultAt fails (0: never)
    calls,      \* history: one entry per finished from_read call
    written,    \* history: the records handed to write_to, in order
    fmt,        \* the record type the Parser is instantiated with
    read_error, \* Parser.read_error
    nexts,      \* history: one entry per finished Parser::next call
    target,     \* Serializer.target: the bytes the sink holds
    capacity,   \* how many bytes the sink takes before its writes fail
    serializes, \* history: one entry per finished Serializer::serialize call
    frame       \* the locals of the from_read call in progress, step by step

vars == <<input, pos, faultAt, calls, written, fmt, read_error, nexts,
          target, capacity, serializes, frame>>

\* The variables of the Serializer
serVars == <<target, capacity, serializes>>

(***************************************************************************)
(* Bytes and text                                                          *)
(***************************************************************************)
NL == "\n"
COLON == ":"
HASH == "#"
BadByte == "0xFF"
Digit == {"0", "1", "2", "3", "4", "5", "6", "7", "8", "9"}
DigitVal == [c \in Digit |->
    CASE c = "0" -> 0 [] c = "1" -> 1 [] c = "2" -> 2 [] c = "3" -> 3
      [] c = "4" -> 4 [] c = "5" -> 5 [] c = "6" -> 6 [] c = "7" -> 7
      [] c = "8" -> 8 [] c = "9" -> 9]
DigitChar == <<"0", "1", "2", "3", "4", "5", "6", "7", "8", "9">>

\* char::is_whitespace, over the bytes of the model
WhiteSpace == {" ", "\t", "\r", NL}

RECURSIVE TrimStart(_)
TrimStart(s) ==
    IF s # <<>> /\ Head(s) \in WhiteSpace THEN TrimStart(Tail(s)) ELSE s

RECURSIVE TrimEnd(_)
TrimEnd(s) ==
    IF s # <<>> /\ s[Len(s)] \in WhiteSpace
    THEN TrimEnd(SubSeq(s, 1, Len(s) - 1)) ELSE s

\* A slip trim could be replaced by: trim_end
TrimEndOnly(s) == TrimEnd(s)

\* str::trim
Trim(s) == TrimEnd(TrimStart(s))

\* std::str::from_utf8(..).is_ok()
ValidUtf8(s) == \A i \in 1..Len(s) : s[i] # BadByte

\* A slip: only '#' with a space after it opens a comment
StartsWithHashAndSpace(s) == Len(s) > 1 /\ s[1] = HASH /\ s[2] = " "

\* str::starts_with('#')
StartsWithHash(s) == s # <<>> /\ s[1] = HASH

\* The index of the first c in s, 0 when there is none
FirstIndex(s, c) ==
    IF \E i \in 1..Len(s) : s[i] = c
    THEN CHOOSE i \in 1..Len(s) : s[i] = c /\ \A j \in 1..(i - 1) : s[j] # c
    ELSE 0

None == [some |-> FALSE]
Some(x) == [some |-> TRUE, val |-> x]

\* A slip split_once could be replaced by: a line with no ':' is a key
\* with an empty value
SplitOnceOrWhole(s) ==
    LET i == FirstIndex(s, COLON)
    IN  IF i = 0 THEN Some(<<s, <<>>>>)
        ELSE Some(<<SubSeq(s, 1, i - 1), SubSeq(s, i + 1, Len(s))>>)

\* The index of the last c in s, 0 when there is none
LastIndex(s, c) ==
    IF \E i \in 1..Len(s) : s[i] = c
    THEN CHOOSE i \in 1..Len(s) : s[i] = c /\ \A j \in (i + 1)..Len(s) : s[j] # c
    ELSE 0

\* A slip split_once could be replaced by: rsplit_once, the cut at the
\* last ':'
SplitAtLastColon(s) ==
    LET i == LastIndex(s, COLON)
    IN  IF i = 0 THEN None
        ELSE Some(<<SubSeq(s, 1, i - 1), SubSeq(s, i + 1, Len(s))>>)

\* str::split_once(':'): the text before and the text after the first ':'
SplitOnce(s) ==
    LET i == FirstIndex(s, COLON)
    IN  IF i = 0 THEN None
        ELSE Some(<<SubSeq(s, 1, i - 1), SubSeq(s, i + 1, Len(s))>>)

(***************************************************************************)
(* Unsigned decimals: u32::from_str / u64::from_str and their Display      *)
(***************************************************************************)
U32MaxDigits == <<"4", "2", "9", "4", "9", "6", "7", "2", "9", "5">>
U64MaxDigits == <<"1", "8", "4", "4", "6", "7", "4", "4", "0", "7",
                  "3", "7", "0", "9", "5", "5", "1", "6", "1", "5">>

RECURSIVE StripZeros(_)
StripZeros(d) ==
    IF Len(d) > 1 /\ Head(d) = "0" THEN StripZeros(Tail(d)) ELSE d

RECURSIVE DigitsLeq(_, _)
\* a <= b for two digit strings of the same length
DigitsLeq(a, b) ==
    IF a = <<>> THEN TRUE
    ELSE IF DigitVal[Head(a)] # DigitVal[Head(b)]
         THEN DigitVal[Head(a)] < DigitVal[Head(b)]
         ELSE DigitsLeq(Tail(a), Tail(b))

\* the value does not overflow the type whose largest value is maxDigits
FitsIn(d, maxDigits) ==
    LET n == StripZeros(d)
    IN  \/ Len(n) < Len(maxDigits)
        \/ Len(n) = Len(maxDigits) /\ DigitsLeq(n, maxDigits)

RECURSIVE DigitsValue(_, _)
DigitsValue(d, acc) ==
    IF d = <<>> THEN acc
    ELSE DigitsValue(Tail(d), acc * 10 + DigitVal[Head(d)])

\* <T as FromStr>::from_str for an unsigned T: an optional '+', then one or
\* more digits, the value within the type's range
ParseUnsigned(s, maxDigits) ==
    LET d == IF Len(s) > 1 /\ s[1] = "+" THEN Tail(s) ELSE s
    IN  IF d = <<>> \/ (\E i \in 1..Len(d) : d[i] \notin Digit)
        THEN [ok |-> FALSE]
        ELSE IF ~FitsIn(d, maxDigits)
        THEN [ok |-> FALSE]
        ELSE [ok |-> TRUE, val |-> DigitsValue(d, 0)]

RECURSIVE ToDecimal(_)
\* Display of an unsigned integer
ToDecimal(n) ==
    IF n < 10 THEN <<DigitChar[n + 1]>>
    ELSE Append(ToDecimal(n \div 10), DigitChar[(n % 10) + 1])

(***************************************************************************)
(* The record model                                                        *)
(***************************************************************************)
TransactionType == {"Deposit", "Transfer", "Withdrawal"}
TransactionStatus == {"Pending", "Success", "Failure"}

\* A slip the strict lookup could be replaced by: any other spelling
\* is read as the first variant
TransactionTypeOrDefault(s) ==
    CASE s = <<"DEPOSIT">> -> [ok |-> TRUE, val |-> "Deposit"]
      [] s = <<"TRANSFER">> -> [ok |-> TRUE, val |-> "Transfer"]
      [] s = <<"WITHDRAWAL">> -> [ok |-> TRUE, val |-> "Withdrawal"]
      [] OTHER -> [ok |-> TRUE, val |-> "Deposit"]

\* impl FromStr / #[serde(rename)] for TransactionType
TransactionTypeFromStr(s) ==
    CASE s = <<"DEPOSIT">> -> [ok |-> TRUE, val |-> "Deposit"]
      [] s = <<"TRANSFER">> -> [ok |-> TRUE, val |-> "Transfer"]
      [] s = <<"WITHDRAWAL">> -> [ok |-> TRUE, val |-> "Withdrawal"]
      [] OTHER -> [ok |-> FALSE]

\* impl Display for TransactionType
TransactionTypeDisplay(t) ==
    CASE t = "Deposit" -> <<"DEPOSIT">>
      [] t = "Transfer" -> <<"TRANSFER">>
      [] t = "Withdrawal" -> <<"WITHDRAWAL">>

\* impl FromStr / #[serde(rename)] for TransactionStatus
TransactionStatusFromStr(s) ==
    CASE s = <<"PENDING">> -> [ok |-> TRUE, val |-> "Pending"]
      [] s = <<"FAILURE">> -> [ok |-> TRUE, val |-> "Failure"]
      [] s = <<"SUCCESS">> -> [ok |-> TRUE, val |-> "Success"]
      [] OTHER -> [ok |-> FALSE]

\* impl Display for TransactionStatus
TransactionStatusDisplay(t) ==
    CASE t = "Pending" -> <<"PENDING">>
      [] t = "Success" -> <<"SUCCESS">>
      [] t = "Failure" -> <<"FAILURE">>

\* The serde names of YPBankTextRecord's fields, in declaration order
FieldNames == <<"TX_ID", "TX_TYPE", "FROM_USER_ID", "TO_USER_ID",
                "AMOUNT", "TIMESTAMP", "STATUS", "DESCRIPTION">>
FieldKeys == {<<FieldNames[i]>> : i \in 1..Len(FieldNames)}

(***************************************************************************)
(* Results                                                                 *)
(***************************************************************************)
Ok(r) == [kind |-> "Ok", rec |-> r]
Err(e) == [kind |-> "Err", err |-> e]
MissingColonAfterKey == Err("MissingColonAfterKey")
ReadLineError == Err("ReadLineError")
ParseError == Err("ParseError")
SourceIsEmpty == Err("SourceIsEmpty")
EmptyLinesAtEndOfFile == Err("EmptyLinesAtEndOfFile")

(***************************************************************************)
(* txt_format.rs: the block decoder                                        *)
(***************************************************************************)
\* The fields of YPBankTextRecord from a map that holds the eight keys:
\* DisplayFromStr for the integers, the renamed variants for the two
\* enumerations, the description as it is
DeserializeFields(map) ==
    LET id == ParseUnsigned(map[<<"TX_ID">>], U32MaxDigits)
        ty == TransactionTypeFromStr(map[<<"TX_TYPE">>])
        from == ParseUnsigned(map[<<"FROM_USER_ID">>], U32MaxDigits)
        to == ParseUnsigned(map[<<"TO_USER_ID">>], U32MaxDigits)
        amount == ParseUnsigned(map[<<"AMOUNT">>], U64MaxDigits)
        ts == ParseUnsigned(map[<<"TIMESTAMP">>], U64MaxDigits)
        st == TransactionStatusFromStr(map[<<"STATUS">>])
    IN  IF id.ok /\ ty.ok /\ from.ok /\ to.ok /\ amount.ok /\ ts.ok /\ st.ok
        THEN Ok([id |-> id.val,
                 transaction_type |-> ty.val,
                 from_user_id |-> from.val,
                 to_user_id |-> to.val,
                 amount |-> amount.val,
                 timestamp |-> ts.val,
                 transaction_status |-> st.val,
                 description |-> map[<<"DESCRIPTION">>]])
        ELSE ParseError

\* A slip: the record without #[serde(deny_unknown_fields)], which skips
\* the keys it does not know
parse_transaction_lenient(map) ==
    IF \E k \in FieldKeys : k \notin DOMAIN map THEN ParseError
    ELSE DeserializeFields(map)

\* YPBankTextRecord::parse_transaction: serde's derived Deserialize with
\* deny_unknown_fields over the drained map.  Every failure is one
\* serde::de::value::Error, which from_read turns into ParseError; the
\* error's text is left out of the model.
parse_transaction(map) ==
    IF \E k \in DOMAIN map : k \notin FieldKeys THEN ParseError
    ELSE IF \E k \in FieldKeys : k \notin DOMAIN map THEN ParseError
    ELSE DeserializeFields(map)

\* A slip insert could be replaced by: entry(k).or_insert(v), which keeps
\* the value a key already has
MapInsertFirstWins(map, k, v) ==
    [x \in (DOMAIN map) \cup {k} |-> IF x \in DOMAIN map THEN map[x] ELSE v]

\* HashMap::insert
MapInsert(map, k, v) ==
    [x \in (DOMAIN map) \cup {k} |-> IF x = k THEN v ELSE map[x]]

EmptyMap == [x \in {} |-> <<>>]

RECURSIVE ReadLine(_, _, _, _, _)
\* A slip: the newline byte does not count as content read
ReadLineNewlineUncounted(data, fault, p, line_buf, has_started) ==
    IF fault # 0 /\ p + 1 = fault
    THEN [err |-> TRUE, pos |-> p, line |-> line_buf, eof |-> FALSE,
          has_started |-> has_started]
    ELSE IF p >= Len(data)
    THEN [err |-> FALSE, pos |-> p, line |-> line_buf, eof |-> TRUE,
          has_started |-> has_started]
    ELSE IF data[p + 1] = NL
    THEN [err |-> FALSE, pos |-> p + 1, line |-> line_buf, eof |-> FALSE,
          has_started |-> has_started]
    ELSE ReadLine(data, fault, p + 1, Append(line_buf, data[p + 1]), TRUE)

\* The inner loop of from_read: one byte at a time up to "\n" or the end of
\* the input.  The source's read fails when it is asked for byte number
\* fault.
ReadLine(data, fault, p, line_buf, has_started) ==
    IF fault # 0 /\ p + 1 = fault
    THEN [err |-> TRUE, pos |-> p, line |-> line_buf, eof |-> FALSE,
          has_started |-> has_started]
    ELSE IF p >= Len(data)
    THEN [err |-> FALSE, pos |-> p, line |-> line_buf, eof |-> TRUE,
          has_started |-> has_started]
    ELSE IF data[p + 1] = NL
    THEN [err |-> FALSE, pos |-> p + 1, line |-> line_buf, eof |-> FALSE,
          has_started |-> TRUE]
    ELSE ReadLine(data, fault, p + 1, Append(line_buf, data[p + 1]), TRUE)

RECURSIVE FromReadLoop(_, _, _, _, _)
\* A slip: the end of the input is reported before the pending pairs are
\* looked at, and the pairs are not finalized after the last line
FromReadLoopEofFirst(data, fault, p, kv_pairs, has_started) ==
    LET l == ReadLine(data, fault, p, <<>>, has_started)
        trimmed_line == Trim(l.line)
    IN  IF l.err THEN [result |-> ReadLineError, pos |-> l.pos]
        ELSE IF ~ValidUtf8(l.line) THEN [result |-> ParseError, pos |-> l.pos]
        ELSE IF StartsWithHash(trimmed_line)
        THEN FromReadLoop(data, fault, l.pos, kv_pairs, l.has_started)
        ELSE IF trimmed_line = <<>>
        THEN IF l.eof
             THEN [result |-> IF ~l.has_started THEN SourceIsEmpty
                              ELSE EmptyLinesAtEndOfFile,
                   pos |-> l.pos]
             ELSE IF DOMAIN kv_pairs # {}
             THEN [result |-> parse_transaction(kv_pairs), pos |-> l.pos]
             ELSE FromReadLoop(data, fault, l.pos, kv_pairs, l.has_started)
        ELSE IF ~SplitOnce(trimmed_line).some
        THEN [result |-> MissingColonAfterKey, pos |-> l.pos]
        ELSE LET kv == SplitOnce(trimmed_line).val
                 map == MapInsert(kv_pairs, Trim(kv[1]), Trim(kv[2]))
             IN  FromReadLoop(data, fault, l.pos, map, l.has_started)

\* A slip: on a fault of the source the pairs accumulated so far are
\* finalized, as they are at the end of the input
FromReadLoopFinalizingOnFault(data, fault, p, kv_pairs, has_started) ==
    LET l == ReadLine(data, fault, p, <<>>, has_started)
        trimmed_line == Trim(l.line)
    IN  IF l.err
        THEN [result |-> IF DOMAIN kv_pairs # {}
                         THEN parse_transaction(kv_pairs) ELSE ReadLineError,
              pos |-> l.pos]
        ELSE IF ~ValidUtf8(l.line) THEN [result |-> ParseError, pos |-> l.pos]
        ELSE IF StartsWithHash(trimmed_line)
        THEN FromReadLoop(data, fault, l.pos, kv_pairs, l.has_started)
        ELSE IF trimmed_line = <<>>
        THEN IF DOMAIN kv_pairs # {}
             THEN [result |-> parse_transaction(kv_pairs), pos |-> l.pos]
             ELSE IF l.eof
             THEN [result |-> IF ~l.has_started THEN SourceIsEmpty
                              ELSE EmptyLinesAtEndOfFile,
                   pos |-> l.pos]
             ELSE FromReadLoop(data, fault, l.pos, kv_pairs, l.has_started)
        ELSE IF ~SplitOnce(trimmed_line).some
        THEN [result |-> MissingColonAfterKey, pos |-> l.pos]
        ELSE LET kv == SplitOnce(trimmed_line).val
                 map == MapInsert(kv_pairs, Trim(kv[1]), Trim(kv[2]))
             IN  IF l.eof /\ DOMAIN map # {}
                 THEN [result |-> parse_transaction(map), pos |-> l.pos]
                 ELSE FromReadLoop(data, fault, l.pos, map, l.has_started)

\* The outer loop of from_read, from cursor p with the pairs kv_pairs
FromReadLoop(data, fault, p, kv_pairs, has_started) ==
    LET l == ReadLine(data, fault, p, <<>>, has_started)
        trimmed_line == Trim(l.line)
    IN  IF l.err THEN [result |-> ReadLineError, pos |-> l.pos]
        ELSE IF ~ValidUtf8(l.line) THEN [result |-> ParseError, pos |-> l.pos]
        ELSE IF StartsWithHash(trimmed_line)
        THEN FromReadLoop(data, fault, l.pos, kv_pairs, l.has_started)
        ELSE IF trimmed_line = <<>>
        THEN IF DOMAIN kv_pairs # {}
             THEN [result |-> parse_transaction(kv_pairs), pos |-> l.pos]
             ELSE IF l.eof
             THEN [result |-> IF ~l.has_started THEN SourceIsEmpty
                              ELSE EmptyLinesAtEndOfFile,
                   pos |-> l.pos]
             ELSE FromReadLoop(data, fault, l.pos, kv_pairs, l.has_started)
        ELSE IF ~SplitOnce(trimmed_line).some
        THEN [result |-> MissingColonAfterKey, pos |-> l.pos]
        ELSE LET kv == SplitOnce(trimmed_line).val
                 map == MapInsert(kv_pairs, Trim(kv[1]), Trim(kv[2]))
             IN  IF l.eof /\ DOMAIN map # {}
                 THEN [result |-> parse_transaction(map), pos |-> l.pos]
                 ELSE FromReadLoop(data, fault, l.pos, map, l.has_started)

\* A slip: has_started remembers that an earlier call consumed bytes
from_read_remembering(data, fault, p) ==
    FromReadLoop(data, fault, p, EmptyMap, p > 0)

\* A slip: the mapping outlives the call, so that a call which starts
\* inside a block, after a call that failed on the line before, finds
\* what that call had accumulated
from_read_keeping_pairs(data, fault, p) ==
    FromReadLoop(data, fault, p,
                 IF p >= 2 /\ data[p] = NL /\ data[p - 1] # NL
                 THEN MapInsert(EmptyMap, <<"TX_ID">>, <<"9", "9">>)
                 ELSE EmptyMap,
                 FALSE)

\* A slip: the source is read through a buffer inside the call, and the
\* call that returns a record has taken a byte of what follows the block
from_read_overreading(data, fault, p) ==
    LET r == FromReadLoop(data, fault, p, EmptyMap, FALSE)
    IN  IF r.result.kind = "Ok" /\ r.pos < Len(data)
        THEN [r EXCEPT !.pos = r.pos + 1]
        ELSE r

\* YPBankTextRecord::from_read on a reader whose cursor is at p
from_read(data, fault, p) == FromReadLoop(data, fault, p, EmptyMap, FALSE)

\* writeln!(w, "{}", text): the text, then a newline
Writeln(text) == Append(text, NL)

\* "KEY: value"
KeyValue(k, v) == <<k, COLON, " ">> \o v

\* YPBankTextRecord::write_to on a sink that takes every byte: the bytes it
\* appends
write_to(r) ==
    Writeln(KeyValue("TX_ID", ToDecimal(r.id)))
    \o Writeln(KeyValue("TX_TYPE", TransactionTypeDisplay(r.transaction_type)))
    \o Writeln(KeyValue("FROM_USER_ID", ToDecimal(r.from_user_id)))
    \o Writeln(KeyValue("TO_USER_ID", ToDecimal(r.to_user_id)))
    \o Writeln(KeyValue("AMOUNT", ToDecimal(r.amount)))
    \o Writeln(KeyValue("TIMESTAMP", ToDecimal(r.timestamp)))
    \o Writeln(KeyValue("STATUS", TransactionStatusDisplay(r.transaction_status)))
    \o Writeln(KeyValue("DESCRIPTION", r.description))
    \o Writeln(<<>>)

(***************************************************************************)
(* Inputs: the streams the decoder is run on                               *)
(***************************************************************************)
\* The records of the tests' fixtures, with small numbers
Record1 == [id |-> 1, transaction_type |-> "Deposit", from_user_id |-> 0,
            to_user_id |-> 10, amount |-> 100, timestamp |-> 1,
            transaction_status |-> "Success", description |-> <<"x">>]
Record2 == [id |-> 2, transaction_type |-> "Withdrawal", from_user_id |-> 10,
            to_user_id |-> 0, amount |-> 50, timestamp |-> 2,
            transaction_status |-> "Pending",
            description |-> <<"\"", "a", " ", ":", "b", "\"">>]
Record3 == [id |-> 3, transaction_type |-> "Transfer", from_user_id |-> 1,
            to_user_id |-> 2, amount |-> 7, timestamp |-> 3,
            transaction_status |-> "Failure", description |-> <<>>]

Record4 == [Record1 EXCEPT !.description = <<HASH, "x", COLON, COLON>>]
SampleRecords == {Record1, Record2, Record3, Record4}

\* The eight key/value lines of a record, in the canonical order
RecordLines(r) ==
    << KeyValue("TX_ID", ToDecimal(r.id)),
       KeyValue("TX_TYPE", TransactionTypeDisplay(r.transaction_type)),
       KeyValue("FROM_USER_ID", ToDecimal(r.from_user_id)),
       KeyValue("TO_USER_ID", ToDecimal(r.to_user_id)),
       KeyValue("AMOUNT", ToDecimal(r.amount)),
       KeyValue("TIMESTAMP", ToDecimal(r.timestamp)),
       KeyValue("STATUS", TransactionStatusDisplay(r.transaction_status)),
       KeyValue("DESCRIPTION", r.description) >>

RECURSIVE JoinLines(_)
\* The lines, each ended by a newline
JoinLines(ls) ==
    IF ls = <<>> THEN <<>> ELSE Head(ls) \o <<NL>> \o JoinLines(Tail(ls))

Reverse(s) == [i \in 1..Len(s) |-> s[Len(s) + 1 - i]]
DropAt(s, i) == SubSeq(s, 1, i - 1) \o SubSeq(s, i + 1, Len(s))
InsertAfter(s, i, x) == SubSeq(s, 1, i) \o <<x>> \o SubSeq(s, i + 1, Len(s))
ReplaceAt(s, i, x) == [s EXCEPT ![i] = x]

CommentLine == <<HASH, " ", "Record", ":", "1">>
NoColonLine == <<"TX_ID", " ", "1", "2", "3">>
UnknownLine == <<"UNKNOWN_FIELD", COLON, " ", "x">>

\* Lines that take the place of line i of a block and carry a bad value
BadValueLines ==
    { <<1, KeyValue("TX_ID", <<"-", "5">>)>>,
      <<1, KeyValue("TX_ID", <<>>)>>,
      <<3, KeyValue("FROM_USER_ID", <<"1", "x">>)>>,
      <<4, KeyValue("TO_USER_ID", <<"1", " ", "0">>)>>,
      <<5, KeyValue("AMOUNT", <<"not_a_number">>)>>,
      <<6, KeyValue("TIMESTAMP", <<"-", "0">>)>>,
      <<2, KeyValue("TX_TYPE", <<"deposit">>)>>,
      <<2, KeyValue("TX_TYPE", <<"Deposit">>)>>,
      <<2, KeyValue("TX_TYPE", <<"PENDING">>)>>,
      <<7, KeyValue("STATUS", <<"UNKNOWN_STATUS">>)>>,
      <<7, KeyValue("STATUS", <<>>)>> }

\* Lines that take the place of line i of a block and change nothing, or
\* only the value, of the record read
GoodValueLines ==
    { <<1, <<" ", "TX_ID", " ", COLON, "+", "0", "7", " ", "\r">>>>,
      <<5, <<"\t", "AMOUNT", COLON, "1", "0", "0">>>>,
      <<8, <<"DESCRIPTION", COLON>> \o Record4.description>> }

WellFormedBlocks ==
    { RecordLines(Record1), RecordLines(Record2),
      Reverse(RecordLines(Record3)),
      InsertAfter(RecordLines(Record1), 3, CommentLine),
      InsertAfter(RecordLines(Record3), 8, <<" ", HASH>>) }
    \cup { ReplaceAt(RecordLines(Record1), l[1], l[2]) : l \in GoodValueLines }

DefectiveBlocks ==
    { DropAt(RecordLines(Record1), i) : i \in 1..8 }
    \cup { InsertAfter(RecordLines(Record1), i, UnknownLine) : i \in {0, 8} }
    \cup { ReplaceAt(RecordLines(Record1), 1, KeyValue("tx_id", <<"1">>)),
           InsertAfter(RecordLines(Record1), 8, KeyValue("tx_id", <<"1">>)),
           InsertAfter(RecordLines(Record1), 2, KeyValue("TX_ID", <<"9">>)),
           InsertAfter(RecordLines(Record1), 2, <<COLON, "1">>),
           ReplaceAt(RecordLines(Record1), 8,
                     KeyValue("DESCRIPTION", <<"x", BadByte>>)),
           InsertAfter(RecordLines(Record1), 4, <<HASH, BadByte>>) }
    \cup { ReplaceAt(RecordLines(Record1), l[1], l[2]) : l \in BadValueLines }

\* A line with no ':' put into a block, sound or not
NoColonBlocks ==
    UNION { { InsertAfter(b, i, NoColonLine) : i \in {0, 4, Len(b)} } :
        b \in { RecordLines(Record1),
                InsertAfter(RecordLines(Record1), 0, UnknownLine),
                ReplaceAt(RecordLines(Record1), 1,
                          KeyValue("TX_ID", <<"-", "5">>)),
                DropAt(RecordLines(Record1), 2) } }
    \cup { <<NoColonLine>>, <<<<"x">>>> }

\* Blocks that hold a key on two lines: a bad value before the good one,
\* a bad value after the good one
RepeatedKeyBlocks ==
    { InsertAfter(RecordLines(Record1), 0, KeyValue("TX_ID", <<"x">>)),
      InsertAfter(RecordLines(Record1), 8, KeyValue("AMOUNT", <<"-", "1">>)) }

FirstBlocks ==
    {<<>>} \cup WellFormedBlocks \cup DefectiveBlocks \cup NoColonBlocks
    \cup RepeatedKeyBlocks
SecondBlocks == {<<>>, RecordLines(Record2), DropAt(RecordLines(Record3), 8)}

Leading == { <<>>, <<NL>>, <<" ", NL, HASH, "c", NL>> }
Separators == { <<>>, <<NL>>, <<NL, HASH, NL, "\r", NL>>, <<HASH, "c", NL>> }
Trailing == { <<>>, <<NL>>, <<" ", NL, NL>>, <<HASH, "c">> }

\* The stream without its last newline, when it ends with one
Chop(s) ==
    IF s # <<>> /\ s[Len(s)] = NL THEN SubSeq(s, 1, Len(s) - 1) ELSE s

Streams ==
    { JoinLines(<<>>) \o pre \o JoinLines(b1) \o sep \o JoinLines(b2) \o post :
        pre \in Leading, b1 \in FirstBlocks, sep \in Separators,
        b2 \in SecondBlocks, post \in Trailing }

Inputs == Streams \cup { Chop(s) : s \in Streams }

\* How many from_read calls are made on one stream
MaxCalls == 3

(***************************************************************************)
(* The decoder run on a stream                                             *)
(***************************************************************************)
Init ==
    /\ input \in Inputs
    /\ pos = 0
    /\ faultAt = 0
    /\ calls = <<>>
    /\ written = <<>>
    /\ fmt = "txt"
    /\ read_error = None
    /\ nexts = <<>>
    /\ target = <<>> /\ capacity = None /\ serializes = <<>>
    /\ frame = None

\* One call YPBankTextRecord::from_read(&mut reader)
FromRead ==
    /\ Len(calls) < MaxCalls
    /\ LET r == from_read(input, faultAt, pos)
       IN  /\ pos' = r.pos
           /\ calls' = Append(calls, [start |-> pos, end |-> r.pos,
                                      result |-> r.result])
    /\ UNCHANGED <<input, faultAt, written, fmt, read_error, nexts, serVars,
                   frame>>

Next == FromRead

Spec == Init /\ [][Next]_vars

(***************************************************************************)
(* The decoder run on a source whose read fails at one byte                *)
(***************************************************************************)
FaultStreams ==
    { JoinLines(RecordLines(Record1)) \o <<NL>> \o JoinLines(RecordLines(Record2)),
      Chop(JoinLines(RecordLines(Record1))),
      <<HASH, "c", NL>> \o JoinLines(RecordLines(Record3)) \o <<NL>>,
      JoinLines(DropAt(RecordLines(Record1), 1)) \o <<NL, NL>>,
      JoinLines(InsertAfter(RecordLines(Record1), 4, NoColonLine)),
      <<NL>>,
      <<>> }

\* A reader whose read of one byte, or of the end of the input, fails
InitFault ==
    /\ input \in FaultStreams
    /\ faultAt \in 1..(Len(input) + 1)
    /\ pos = 0
    /\ calls = <<>>
    /\ written = <<>>
    /\ fmt = "txt"
    /\ read_error = None
    /\ nexts = <<>>
    /\ target = <<>> /\ capacity = None /\ serializes = <<>>
    /\ frame = None

SpecFault == InitFault /\ [][Next]_vars

(***************************************************************************)
(* from_read step by step: one step for each pass of the inner loop (one   *)
(* read of the source) and one for the rest of a pass of the outer loop    *)
(* (the line read is looked at)                                            *)
(***************************************************************************)
\* A slip: at the end of the input a blank line with nothing accumulated
\* is skipped like any other blank line
process_line_ignoring_eof(kv_pairs, line_buf, eof, has_started) ==
    LET trimmed_line == Trim(line_buf)
    IN  IF ~ValidUtf8(line_buf) THEN [done |-> TRUE, result |-> ParseError]
        ELSE IF StartsWithHash(trimmed_line)
        THEN [done |-> FALSE, kv_pairs |-> kv_pairs]
        ELSE IF trimmed_line = <<>>
        THEN IF DOMAIN kv_pairs # {}
             THEN [done |-> TRUE, result |-> parse_transaction(kv_pairs)]
             ELSE [done |-> FALSE, kv_pairs |-> kv_pairs]
        ELSE IF ~SplitOnce(trimmed_line).some
        THEN [done |-> TRUE, result |-> MissingColonAfterKey]
        ELSE LET kv == SplitOnce(trimmed_line).val
                 map == MapInsert(kv_pairs, Trim(kv[1]), Trim(kv[2]))
             IN  IF eof /\ DOMAIN map # {}
                 THEN [done |-> TRUE, result |-> parse_transaction(map)]
                 ELSE [done |-> FALSE, kv_pairs |-> map]

\* The outer loop of from_read after its inner loop: the line in line_buf
\* is looked at; the call returns (done) or goes on with the next line
process_line(kv_pairs, line_buf, eof, has_started) ==
    LET trimmed_line == Trim(line_buf)
    IN  IF ~ValidUtf8(line_buf) THEN [done |-> TRUE, result |-> ParseError]
        ELSE IF StartsWithHash(trimmed_line)
        THEN [done |-> FALSE, kv_pairs |-> kv_pairs]
        ELSE IF trimmed_line = <<>>
        THEN IF DOMAIN kv_pairs # {}
             THEN [done |-> TRUE, result |-> parse_transaction(kv_pairs)]
             ELSE IF eof
             THEN [done |-> TRUE,
                   result |-> IF ~has_started THEN SourceIsEmpty
                              ELSE EmptyLinesAtEndOfFile]
             ELSE [done |-> FALSE, kv_pairs |-> kv_pairs]
        ELSE IF ~SplitOnce(trimmed_line).some
        THEN [done |-> TRUE, result |-> MissingColonAfterKey]
        ELSE LET kv == SplitOnce(trimmed_line).val
                 map == MapInsert(kv_pairs, Trim(kv[1]), Trim(kv[2]))
             IN  IF eof /\ DOMAIN map # {}
                 THEN [done |-> TRUE, result |-> parse_transaction(map)]
                 ELSE [done |-> FALSE, kv_pairs |-> map]

StepStreams ==
    { <<>>,
      <<NL>>,
      <<HASH, "c">>,
      <<" ", NL, HASH, "c", NL, "\r">>,
      <<"x", NL, BadByte>>,
      JoinLines(RecordLines(Record1)),
      Chop(JoinLines(RecordLines(Record1))),
      JoinLines(RecordLines(Record1)) \o <<HASH, "c">>,
      JoinLines(RecordLines(Record1)) \o <<NL, HASH, "c">>,
      JoinLines(RecordLines(Record1)) \o <<NL, NL>>
        \o JoinLines(RecordLines(Record2)) \o <<NL>>,
      JoinLines(InsertAfter(RecordLines(Record3), 3, CommentLine))
        \o <<" ", NL>> \o Chop(JoinLines(DropAt(RecordLines(Record1), 8))),
      JoinLines(InsertAfter(RecordLines(Record1), 4, NoColonLine)) }

InitSteps ==
    /\ input \in StepStreams
    /\ faultAt \in {0, Len(input) + 1}
    /\ pos = 0
    /\ calls = <<>>
    /\ written = <<>>
    /\ fmt = "txt"
    /\ read_error = None
    /\ nexts = <<>>
    /\ target = <<>> /\ capacity = None /\ serializes = <<>>
    /\ frame = None

\* from_read is called: its locals as they are declared
Call ==
    /\ ~frame.some
    /\ Len(calls) < MaxCalls
    /\ frame' = Some([start |-> pos, kv_pairs |-> EmptyMap, line_buf |-> <<>>,
                      has_started |-> FALSE, eof |-> FALSE, pc |-> "read"])
    /\ UNCHANGED <<input, pos, faultAt, calls, written, fmt, read_error,
                   nexts, serVars>>

\* One pass of the inner loop: reader.read(&mut byte_buf)
ReadByte ==
    /\ frame.some
    /\ frame.val.pc = "read"
    /\ LET f == frame.val
       IN  IF faultAt # 0 /\ pos + 1 = faultAt
           THEN /\ calls' = Append(calls, [start |-> f.start, end |-> pos,
                                           result |-> ReadLineError])
                /\ frame' = None
                /\ pos' = pos
           ELSE IF pos >= Len(input)
           THEN /\ frame' = Some([f EXCEPT !.eof = TRUE, !.pc = "line"])
                /\ UNCHANGED <<pos, calls>>
           ELSE IF input[pos + 1] = NL
           THEN /\ frame' = Some([f EXCEPT !.has_started = TRUE,
                                           !.pc = "line"])
                /\ pos' = pos + 1
                /\ calls' = calls
           ELSE /\ frame' = Some([f EXCEPT
                        !.has_started = TRUE,
                        !.line_buf = Append(f.line_buf, input[pos + 1])])
                /\ pos' = pos + 1
                /\ calls' = calls
    /\ UNCHANGED <<input, faultAt, written, fmt, read_error, nexts, serVars>>

\* The rest of a pass of the outer loop: the line is looked at, and the
\* call returns or clears line_buf and eof for the next pass
ProcessLine ==
    /\ frame.some
    /\ frame.val.pc = "line"
    /\ LET f == frame.val
           o == process_line(f.kv_pairs, f.line_buf, f.eof, f.has_started)
       IN  IF o.done
           THEN /\ calls' = Append(calls, [start |-> f.start, end |-> pos,
                                           result |-> o.result])
                /\ frame' = None
           ELSE /\ frame' = Some([f EXCEPT !.kv_pairs = o.kv_pairs,
                                           !.line_buf = <<>>,
                                           !.eof = FALSE,
                                           !.pc = "read"])
                /\ calls' = calls
    /\ UNCHANGED <<input, pos, faultAt, written, fmt, read_error, nexts,
                   serVars>>

NextSteps == Call \/ ReadByte \/ ProcessLine

\* The thread that called from_read runs on until the call returns
SpecSteps ==
    /\ InitSteps
    /\ [][NextSteps]_vars
    /\ WF_vars(ReadByte)
    /\ WF_vars(ProcessLine)

(***************************************************************************)
(* write_to, then from_read: records written to a buffer that is read back *)
(***************************************************************************)
\* The bytes a description is made of here
DescBytes == {"a", " ", NL, COLON, HASH}
Descriptions ==
    {<<>>} \cup { <<a>> : a \in DescBytes }
    \cup { <<a, b>> : a \in DescBytes, b \in DescBytes }
    \cup { <<a, "b", c>> : a \in DescBytes, c \in DescBytes }
    \cup { <<"a", b, "TX_ID", COLON, "9">> : b \in DescBytes }
RoundTripRecords ==
    { [r EXCEPT !.description = d] : r \in {Record2}, d \in Descriptions }
    \cup {Record1, Record3}

\* How many records are written to one buffer
MaxWrites == 2

InitRoundTrip ==
    /\ input = <<>>
    /\ pos = 0
    /\ faultAt = 0
    /\ calls = <<>>
    /\ written = <<>>
    /\ fmt = "txt"
    /\ read_error = None
    /\ nexts = <<>>
    /\ target = <<>> /\ capacity = None /\ serializes = <<>>
    /\ frame = None

\* One call record.write_to(&mut sink), the sink taking every byte
WriteTo ==
    /\ Len(written) < MaxWrites
    /\ \E r \in RoundTripRecords :
        /\ input' = input \o write_to(r)
        /\ written' = Append(written, r)
    /\ UNCHANGED <<pos, faultAt, calls, fmt, read_error, nexts, serVars,
                   frame>>

\* One call from_read on the buffer, made when it holds unread bytes
ReadBack == pos < Len(input) /\ FromRead

NextRoundTrip == WriteTo \/ ReadBack

SpecRoundTrip == InitRoundTrip /\ [][NextRoundTrip]_vars

(***************************************************************************)
(* csv_format.rs: the tabular reader, row by row.  The csv crate does the  *)
(* parsing; a source is the sequence of rows after the header, each row    *)
(* one that deserializes into a record or one that does not.               *)
(***************************************************************************)
GoodRow(r) == [valid |-> TRUE, rec |-> r]
BadRow == [valid |-> FALSE]

\* <YPBankCsvRecord as Readable>::read on a reader that has yielded p rows
CsvRead(rows, p) ==
    IF p < Len(rows)
    THEN [result |-> IF rows[p + 1].valid THEN Ok(rows[p + 1].rec)
                     ELSE Err("InvalidData"),
          pos |-> p + 1]
    ELSE [result |-> Err("UnexpectedEof"), pos |-> p]

(***************************************************************************)
(* lib.rs: Parser, the streaming read facade                               *)
(***************************************************************************)
\* TRecord::read(&mut self.reader), for the record type the Parser is over
Read(f, data, fault, p) ==
    IF f = "csv" THEN CsvRead(data, p) ELSE from_read(data, fault, p)

\* A slip: a record read clears the error kept
next_clearing(error, r) ==
    IF r.kind = "Ok"
    THEN [item |-> Some(r), read_error |-> None]
    ELSE [item |-> None, read_error |-> Some(r.err)]

\* A slip: the end of the input is a clean exhaustion, no error is kept
\* for it
next_silent_end(error, r) ==
    IF r.kind = "Ok"
    THEN [item |-> Some(r), read_error |-> error]
    ELSE IF r.err \in {"UnexpectedEof", "SourceIsEmpty", "EmptyLinesAtEndOfFile"}
    THEN [item |-> None, read_error |-> error]
    ELSE [item |-> None, read_error |-> Some(r.err)]

\* Parser::next, given the result r of the read step: the item returned
\* and the read_error left
next(error, r) ==
    IF r.kind = "Ok"
    THEN [item |-> Some(r), read_error |-> error]
    ELSE [item |-> None, read_error |-> Some(r.err)]

Rows == {GoodRow(Record1), GoodRow(Record2), BadRow}
CsvSources ==
    {<<>>} \cup { <<a>> : a \in Rows } \cup { <<a, b>> : a, b \in Rows }
    \cup { <<a, b, c>> : a, b, c \in Rows }

ParserStreams ==
    { JoinLines(b1) \o sep \o JoinLines(b2) \o post :
        b1 \in {<<>>, RecordLines(Record1), DropAt(RecordLines(Record1), 1),
                <<NoColonLine>>,
                ReplaceAt(RecordLines(Record1), 7,
                          KeyValue("STATUS", <<"UNKNOWN_STATUS">>))},
        sep \in {<<>>, <<NL>>},
        b2 \in {<<>>, RecordLines(Record2), DropAt(RecordLines(Record3), 8)},
        post \in {<<>>, <<NL>>, <<NL, NL>>} }

\* How many times next() is called on one Parser
MaxNexts == 4

\* Parser::new(source)
InitParser ==
    /\ \/ fmt = "csv" /\ input \in CsvSources
       \/ fmt = "txt" /\ input \in ParserStreams
    /\ pos = 0
    /\ faultAt = 0
    /\ calls = <<>>
    /\ written = <<>>
    /\ read_error = None
    /\ nexts = <<>>
    /\ target = <<>> /\ capacity = None /\ serializes = <<>>
    /\ frame = None

\* One call parser.next(): the read step is invoked, whatever read_error
\* holds
CallNext ==
    /\ Len(nexts) < MaxNexts
    /\ LET r == Read(fmt, input, faultAt, pos)
           n == next(read_error, r.result)
       IN  /\ pos' = r.pos
           /\ read_error' = n.read_error
           /\ nexts' = Append(nexts, [invoked |-> TRUE, start |-> pos,
                                      read |-> r.result,
                                      item |-> n.item,
                                      read_error |-> n.read_error])
    /\ UNCHANGED <<input, faultAt, calls, written, fmt, serVars, frame>>

NextParser == CallNext

SpecParser == InitParser /\ [][NextParser]_vars

(***************************************************************************)
(* csv_format.rs: the tabular writer, and lib.rs: Serializer, the write    *)
(* facade.  The sink takes a number of bytes and then fails every write;   *)
(* a write that does not fit leaves in the sink the bytes that did.        *)
(***************************************************************************)
COMMA == ","
QUOTE == "\""

\* Write::write_all(bytes) on a sink that holds t and takes room more bytes
\* (None: every byte)
SinkWriteAll(t, room, bytes) ==
    IF ~room.some THEN [ok |-> TRUE, target |-> t \o bytes, room |-> room]
    ELSE IF Len(bytes) <= room.val
    THEN [ok |-> TRUE, target |-> t \o bytes,
          room |-> Some(room.val - Len(bytes))]
    ELSE [ok |-> FALSE, target |-> t \o SubSeq(bytes, 1, room.val),
          room |-> Some(0)]

\* The header line that write_header emits
CsvHeader ==
    <<"TX_ID", COMMA, "TX_TYPE", COMMA, "FROM_USER_ID", COMMA, "TO_USER_ID",
      COMMA, "AMOUNT", COMMA, "TIMESTAMP", COMMA, "STATUS", COMMA,
      "DESCRIPTION", NL>>

\* <YPBankCsvRecord as Writable>::write_header
write_header(t, room) == SinkWriteAll(t, room, CsvHeader)

RECURSIVE ReplaceQuotes(_)
\* A slip: the description is written between the quotes as it is
ReplaceNothing(d) == d

\* str::replace('"', "\"\"")
ReplaceQuotes(d) ==
    IF d = <<>> THEN <<>>
    ELSE (IF Head(d) = QUOTE THEN <<QUOTE, QUOTE>> ELSE <<Head(d)>>)
         \o ReplaceQuotes(Tail(d))

\* The line that write formats for record r
CsvRow(r) ==
    ToDecimal(r.id) \o <<COMMA>>
    \o TransactionTypeDisplay(r.transaction_type) \o <<COMMA>>
    \o ToDecimal(r.from_user_id) \o <<COMMA>>
    \o ToDecimal(r.to_user_id) \o <<COMMA>>
    \o ToDecimal(r.amount) \o <<COMMA>>
    \o ToDecimal(r.timestamp) \o <<COMMA>>
    \o TransactionStatusDisplay(r.transaction_status) \o <<COMMA>>
    \o <<QUOTE>> \o ReplaceQuotes(r.description) \o <<QUOTE>>
    \o <<NL>>

\* <YPBankCsvRecord as Writable>::write
write(r, t, room) == SinkWriteAll(t, room, CsvRow(r))

\* The error of the sink; step names the write that failed (0: the header,
\* i: record i of the slice), which stands for the identity of the error
IoError(step) == [kind |-> "Err", err |-> "io", step |-> step]
OkUnit == [kind |-> "Ok"]

RECURSIVE WriteRecords(_, _, _, _, _)
\* A slip: a record whose write failed is skipped, and the error of the
\* last failure is returned at the end
WriteRecordsKeepGoing(records, i, t, room, out) ==
    IF i > Len(records)
    THEN [result |-> out.result, target |-> t, room |-> room,
          steps |-> out.steps]
    ELSE LET w == write(records[i], t, room)
         IN  WriteRecords(records, i + 1, w.target, w.room,
                          [result |-> IF w.ok THEN out.result ELSE IoError(i),
                           steps |-> Append(out.steps, i)])

\* The loop of serialize, from record i of the slice; out.steps is the
\* write steps made so far
WriteRecords(records, i, t, room, out) ==
    IF i > Len(records)
    THEN [result |-> OkUnit, target |-> t, room |-> room, steps |-> out.steps]
    ELSE LET w == write(records[i], t, room)
         IN  IF ~w.ok
             THEN [result |-> IoError(i), target |-> w.target,
                   room |-> w.room, steps |-> Append(out.steps, i)]
             ELSE WriteRecords(records, i + 1, w.target, w.room,
                               [result |-> OkUnit,
                                steps |-> Append(out.steps, i)])

\* A slip: no header is written for an empty slice
serialize_skipping_header(t, room, records) ==
    IF records = <<>>
    THEN [result |-> OkUnit, target |-> t, room |-> room, steps |-> <<>>]
    ELSE LET h == write_header(t, room)
         IN  IF ~h.ok
             THEN [result |-> IoError(0), target |-> h.target,
                   room |-> h.room, steps |-> <<0>>]
             ELSE WriteRecords(records, 1, h.target, h.room,
                               [result |-> OkUnit, steps |-> <<0>>])

\* Serializer::serialize(&mut self, records)
serialize(t, room, records) ==
    LET h == write_header(t, room)
    IN  IF ~h.ok
        THEN [result |-> IoError(0), target |-> h.target, room |-> h.room,
              steps |-> <<0>>]
        ELSE WriteRecords(records, 1, h.target, h.room,
                          [result |-> OkUnit, steps |-> <<0>>])

\* The records handed to serialize
RecordQ == [Record3 EXCEPT !.description = <<"a", QUOTE, COMMA, NL, QUOTE>>]
CsvRecords == {Record1, Record3, RecordQ}

\* The longest slice handed to serialize
MaxSlice == 2
\* The slices: up to MaxSlice records, no record twice
Slices ==
    { s \in UNION { [1..n -> CsvRecords] : n \in 0..MaxSlice } :
        \A i \in 1..Len(s) : \A j \in (i + 1)..Len(s) : s[i] # s[j] }

\* The largest number of bytes a failing sink takes
MaxRoom == 45
\* How many times serialize is called on one Serializer
MaxSerializes == 2

\* Serializer::new(target)
InitSerializer ==
    /\ target \in {<<>>, <<"x", NL>>}
    /\ capacity \in {None} \cup {Some(n) : n \in 0..MaxRoom}
    /\ serializes = <<>>
    /\ input = <<>> /\ pos = 0 /\ faultAt = 0 /\ calls = <<>>
    /\ written = <<>> /\ fmt = "csv" /\ read_error = None /\ nexts = <<>>
    /\ frame = None

\* One call serializer.serialize(&records)
Serialize ==
    /\ Len(serializes) < MaxSerializes
    /\ \E records \in Slices :
        LET s == serialize(target, capacity, records)
        IN  /\ target' = s.target
            /\ capacity' = s.room
            /\ serializes' = Append(serializes,
                    [records |-> records, before |-> target,
                     room |-> capacity, result |-> s.result,
                     steps |-> s.steps, after |-> s.target])
    /\ UNCHANGED <<input, pos, faultAt, calls, written, fmt, read_error,
                   nexts, frame>>

NextSerializer == Serialize

SpecSerializer == InitSerializer /\ [][NextSerializer]_vars

(***************************************************************************)
(* The lines of a stream, read off its bytes: what the properties below    *)
(* are stated in                                                           *)
(***************************************************************************)
RECURSIVE LinesFrom(_, _)
\* The lines of s from byte i on: the text between newlines, and the text
\* after the last newline when there is any
LinesFrom(s, i) ==
    IF i > Len(s) THEN <<>>
    ELSE LET nls == { j \in i..Len(s) : s[j] = NL }
             j == IF nls = {} THEN Len(s) + 1
                  ELSE CHOOSE n \in nls : \A h \in nls : n <= h
         IN  <<SubSeq(s, i, j - 1)>> \o LinesFrom(s, j + 1)

\* The lines of the text cur \o s, cur being the start of its first line
SplitLines(s, cur) == LinesFrom(cur \o s, 1)

IsText(l) == \A i \in 1..Len(l) : l[i] # BadByte
IsBlankLine(l) == \A i \in 1..Len(l) : l[i] \in WhiteSpace
IsCommentLine(l) ==
    /\ IsText(l)
    /\ \E i \in 1..Len(l) :
        l[i] = HASH /\ \A j \in 1..(i - 1) : l[j] \in WhiteSpace
HasColon(l) == \E i \in 1..Len(l) : l[i] = COLON
\* a line that is neither blank nor a comment
IsEntryLine(l) == IsText(l) /\ ~IsBlankLine(l) /\ ~IsCommentLine(l)
IsKeyValueLine(l) == IsEntryLine(l) /\ HasColon(l)
IsNoColonLine(l) == IsEntryLine(l) /\ ~HasColon(l)

KeyOf(l) == Trim(SubSeq(l, 1, FirstIndex(l, COLON) - 1))
ValueOf(l) == Trim(SubSeq(l, FirstIndex(l, COLON) + 1, Len(l)))

\* The index of the blank line that ends the first block of ls: the first
\* blank line with an entry line before it (Len(ls) + 1: the block runs to
\* the end of the input)
BlockEnd(ls) ==
    LET ends == { t \in 1..Len(ls) :
                    /\ IsBlankLine(ls[t])
                    /\ \E j \in 1..(t - 1) : IsEntryLine(ls[j]) }
    IN  IF ends = {} THEN Len(ls) + 1
        ELSE CHOOSE t \in ends : \A u \in ends : t <= u

\* The first block of the lines ls:
\*   end:    the index of the blank line that ends it
\*   lines:  its entry lines
\*   clean:  up to its end the lines are text, and blank, comments or
\*           key/value lines, at least one of them a key/value line
\*   keys:   the keys of its key/value lines
FirstBlock(ls) ==
    LET t == BlockEnd(ls)
        b == SelectSeq(SubSeq(ls, 1, t - 1), IsEntryLine)
    IN  [end |-> t,
         lines |-> b,
         clean |-> /\ \A j \in 1..(t - 1) :
                        IsText(ls[j]) /\ ~IsNoColonLine(ls[j])
                   /\ b # <<>>,
         keys |-> { KeyOf(b[i]) : i \in 1..Len(b) }]

\* The value of key k in block b (which holds k on one line)
BlockValue(b, k) ==
    ValueOf(b[CHOOSE i \in 1..Len(b) : KeyOf(b[i]) = k])

\* The bytes left in the stream when call k starts, as lines
LinesAt(k) == SplitLines(SubSeq(input, calls[k].start + 1, Len(input)), <<>>)

RECURSIVE Blocks(_, _)
\* The blocks of the lines ls: the runs of entry lines that blank lines and
\* the ends of the stream bound, comments left out
Blocks(ls, cur) ==
    IF ls = <<>> THEN (IF cur = <<>> THEN <<>> ELSE <<cur>>)
    ELSE IF IsCommentLine(Head(ls)) THEN Blocks(Tail(ls), cur)
    ELSE IF IsBlankLine(Head(ls))
    THEN (IF cur = <<>> THEN <<>> ELSE <<cur>>) \o Blocks(Tail(ls), <<>>)
    ELSE Blocks(Tail(ls), Append(cur, Head(ls)))

\* Block b is the eight key/value lines of record r, in any order and
\* with any white space around keys and values
IsBlockOf(b, r) ==
    /\ Len(b) = 8
    /\ \A i \in 1..8 : IsKeyValueLine(b[i])
    /\ { <<KeyOf(b[i]), ValueOf(b[i])>> : i \in 1..8 }
       = { <<KeyOf(RecordLines(r)[i]), ValueOf(RecordLines(r)[i])>> :
             i \in 1..8 }

InputLines == SplitLines(input, <<>>)

\* The record whose block b is
RecordOf(b) == CHOOSE r \in SampleRecords : IsBlockOf(b, r)

\* The stream of lines ls and blocks bs is made of well-formed blocks, blank
\* lines and comments
WellFormedStream(ls, bs) ==
    /\ faultAt = 0
    /\ \A i \in 1..Len(ls) : IsText(ls[i])
    /\ \A n \in 1..Len(bs) : \E r \in SampleRecords : IsBlockOf(bs[n], r)

(***************************************************************************)
(* The claims on the block decoder                                         *)
(***************************************************************************)
\* C1: on a stream of N well-formed blocks (all eight keys each) that one
\* or more blank lines separate, comment lines anywhere, the first N
\* from_read calls return the N records in file order, a further call
\* returns no record, and no comment line adds a key to a record.
C1_RecordsInFileOrder ==
    LET ls == InputLines
        bs == Blocks(ls, <<>>)
    IN  (calls # <<>> /\ WellFormedStream(ls, bs)) =>
            \A k \in 1..Len(calls) :
                IF k <= Len(bs)
                THEN calls[k].result = Ok(RecordOf(bs[k]))
                ELSE calls[k].result.kind = "Err"

\* Two blocks read, a comment line between two key/value lines of a block
\* and more than one blank line between the blocks
C1_Witness ==
    /\ Len(calls) = 3
    /\ calls[1].result = Ok(Record1)
    /\ calls[2].result = Ok(Record2)
    /\ calls[3].result.kind = "Err"
    /\ LET ls == InputLines
           bs == Blocks(ls, <<>>)
       IN  /\ WellFormedStream(ls, bs)
           /\ Len(bs) = 2
           /\ \E i \in 2..(Len(ls) - 1) :
                /\ IsCommentLine(ls[i]) /\ HasColon(ls[i])
                /\ IsKeyValueLine(ls[i - 1])
                /\ IsKeyValueLine(ls[i + 1])
           /\ \E i \in 1..(Len(ls) - 2) :
                /\ IsBlankLine(ls[i])
                /\ IsCommentLine(ls[i + 1])
                /\ IsBlankLine(ls[i + 2])

\* C6: a block that lacks one of the eight keys, or holds all eight and an
\* unknown key besides (keys compared case-sensitively), makes from_read
\* return ParseError, never a record.
C6_MissingOrUnknownKeyIsParseError ==
    \A k \in 1..Len(calls) :
        LET fb == FirstBlock(LinesAt(k))
        IN  ( /\ faultAt = 0
              /\ fb.clean
              /\ \/ \E f \in FieldKeys : f \notin fb.keys
                 \/ FieldKeys \subseteq fb.keys /\ fb.keys # FieldKeys )
            => calls[k].result = ParseError

\* A block with the eight keys and the key tx_id besides was read
C6_Witness ==
    \E k \in 1..Len(calls) :
        LET fb == FirstBlock(LinesAt(k))
        IN  /\ fb.clean
            /\ fb.keys = FieldKeys \cup {<<"tx_id">>}
            /\ calls[k].result = ParseError

NumericKeys == {<<"TX_ID">>, <<"FROM_USER_ID">>, <<"TO_USER_ID">>,
                <<"AMOUNT">>, <<"TIMESTAMP">>}
TypeNames == {<<"DEPOSIT">>, <<"TRANSFER">>, <<"WITHDRAWAL">>}
StatusNames == {<<"PENDING">>, <<"SUCCESS">>, <<"FAILURE">>}

\* The value is no unsigned decimal: it is empty, holds a character that
\* is neither a digit nor a sign, or starts with '-'
BadNumber(v) ==
    \/ v = <<>>
    \/ \E i \in 1..Len(v) : v[i] \notin Digit \cup {"+", "-"}
    \/ v[1] = "-"

\* The block b holds each of the eight keys once, and nothing else
EightKeys(fb) ==
    fb.clean /\ fb.keys = FieldKeys /\ Len(fb.lines) = Len(FieldNames)

\* C7: a block with the eight keys in which a numeric value is no unsigned
\* decimal, or TX_TYPE or STATUS is not spelt as one of its three wire
\* names, makes from_read return ParseError: no value is defaulted.
C7_BadValueIsParseError ==
    \A k \in 1..Len(calls) :
        LET fb == FirstBlock(LinesAt(k))
        IN  ( /\ faultAt = 0
              /\ EightKeys(fb)
              /\ \/ \E f \in NumericKeys : BadNumber(BlockValue(fb.lines, f))
                 \/ BlockValue(fb.lines, <<"TX_TYPE">>) \notin TypeNames
                 \/ BlockValue(fb.lines, <<"STATUS">>) \notin StatusNames )
            => calls[k].result = ParseError

\* A block whose only fault is TX_TYPE spelt in lower case was read
C7_Witness ==
    \E k \in 1..Len(calls) :
        LET fb == FirstBlock(LinesAt(k))
        IN  /\ EightKeys(fb)
            /\ BlockValue(fb.lines, <<"TX_TYPE">>) = <<"deposit">>
            /\ \A f \in NumericKeys : ~BadNumber(BlockValue(fb.lines, f))
            /\ BlockValue(fb.lines, <<"STATUS">>) \in StatusNames
            /\ calls[k].result = ParseError

\* The call that starts on the lines ls reads as far as line i: the lines
\* before it are text, and none of them is a blank line that ends a block
MeetsLine(ls, i) ==
    \A j \in 1..(i - 1) :
        /\ IsText(ls[j])
        /\ IsBlankLine(ls[j]) => \A h \in 1..(j - 1) : ~IsEntryLine(ls[h])

\* C8: a from_read call that meets a line that is neither blank nor a comment
\* and holds no ':' returns MissingColonAfterKey, whatever the other lines
\* of the block hold.
C8_NoColonIsStructuralError ==
    \A k \in 1..Len(calls) :
        LET ls == LinesAt(k)
        IN  ( /\ faultAt = 0
              /\ \E i \in 1..Len(ls) : IsNoColonLine(ls[i]) /\ MeetsLine(ls, i) )
            => calls[k].result = MissingColonAfterKey

\* The line with no ':' was met after an unknown key and before the eight
\* valid keys
C8_Witness ==
    \E k \in 1..Len(calls) :
        LET ls == LinesAt(k)
        IN  /\ calls[k].result = MissingColonAfterKey
            /\ \E i \in 2..Len(ls) :
                /\ IsNoColonLine(ls[i]) /\ MeetsLine(ls, i)
                /\ \E j \in 1..(i - 1) :
                    IsKeyValueLine(ls[j]) /\ KeyOf(ls[j]) \notin FieldKeys
                /\ FieldKeys \subseteq
                    { KeyOf(ls[j]) : j \in { h \in (i + 1)..Len(ls) :
                                               IsKeyValueLine(ls[h]) } }

\* The lines ls hold nothing but blank lines and comments
OnlyBlankOrComment(ls) ==
    \A i \in 1..Len(ls) : IsBlankLine(ls[i]) \/ IsCommentLine(ls[i])

EndAfterRecord(k) ==
    /\ faultAt = 0
    /\ \E j \in 1..(k - 1) : calls[j].result.kind = "Ok"
    /\ OnlyBlankOrComment(LinesAt(k))

RECURSIVE WrittenBytes(_)
\* The bytes the records rs take in the buffer
WrittenBytes(rs) ==
    IF rs = <<>> THEN <<>> ELSE write_to(Head(rs)) \o WrittenBytes(Tail(rs))

\* Call k started on the first byte that write_to produced for the k-th
\* record written
ReadsRecord(k) ==
    /\ k <= Len(written)
    /\ calls[k].start = Len(WrittenBytes(SubSeq(written, 1, k - 1)))

\* The record with the white space around its description trimmed
Trimmed(r) == [r EXCEPT !.description = Trim(r.description)]

\* C2: for every valid record r, whatever its description, from_read on the
\* bytes write_to produced for r returns r, equal field for field up to
\* the white space around the description.
C2_RoundTrip ==
    \A k \in 1..Len(calls) :
        ReadsRecord(k) => calls[k].result = Ok(Trimmed(written[k]))

\* What holds instead: the records whose description holds no newline are
\* read back as written
C2_RoundTripWithoutNewline ==
    \A k \in 1..Len(calls) :
        ( /\ ReadsRecord(k)
          /\ \A i \in 1..Len(written[k].description) :
                written[k].description[i] # NL )
        => calls[k].result = Ok(Trimmed(written[k]))

(***************************************************************************)
(* The claims on Parser                                                    *)
(***************************************************************************)
\* C3: once next() has hit a decode error and returned None, every later
\* next() returns None: no record is yielded after the first error.
C3_ExhaustionIsFinal ==
    \A i \in 1..Len(nexts) : \A j \in (i + 1)..Len(nexts) :
        ~nexts[i].item.some => ~nexts[j].item.some

\* C4: after the first decode error the read step is not invoked again,
\* and read_error stays the first error.
C4_FirstErrorIsKept ==
    \A i \in 1..Len(nexts) :
        (~nexts[i].item.some /\ \A h \in 1..(i - 1) : nexts[h].item.some)
        => \A j \in (i + 1)..Len(nexts) :
            /\ ~nexts[j].invoked
            /\ nexts[j].read_error = Some(nexts[i].read.err)

\* C5: when the read step returns an error, next() returns None and
\* read_error holds that error; when it returns a record, next() yields
\* the record and read_error is what it was before the call.
C5_NextFollowsRead ==
    \A i \in 1..Len(nexts) :
        LET before == IF i = 1 THEN None ELSE nexts[i - 1].read_error
        IN  IF nexts[i].read.kind = "Err"
            THEN /\ nexts[i].item = None
                 /\ nexts[i].read_error = Some(nexts[i].read.err)
            ELSE /\ nexts[i].item = Some(Ok(nexts[i].read.rec))
                 /\ nexts[i].read_error = before

\* A record was yielded by the call after one that kept an error, and the
\* error is still kept
C5_Witness ==
    \E i \in 2..Len(nexts) :
        /\ nexts[i - 1].read.kind = "Err"
        /\ nexts[i].read.kind = "Ok"
        /\ nexts[i].item.some
        /\ read_error = Some(nexts[i - 1].read.err)

(***************************************************************************)
(* The claims on the end of the input, comments, repeated keys and ':'     *)
(***************************************************************************)
\* The bytes left in the stream when call k starts
Rest(k) == SubSeq(input, calls[k].start + 1, Len(input))

\* The stream s with its last line ended, when it is not, and a blank line
\* after it
WithBlankLine(s) ==
    (IF s # <<>> /\ s[Len(s)] # NL THEN Append(s, NL) ELSE s) \o <<NL>>

\* The map the key/value lines b amount to: for each key, the value of the
\* last line that holds it
BlockMap(b) ==
    [k \in { KeyOf(b[i]) : i \in 1..Len(b) } |->
        ValueOf(b[CHOOSE i \in 1..Len(b) :
                    /\ KeyOf(b[i]) = k
                    /\ \A j \in (i + 1)..Len(b) : KeyOf(b[j]) # k])]

\* Call k starts on a block that runs to the end of the input: key/value
\* lines and comments, no blank line after the first key/value line
EndsInBlock(k) ==
    LET ls == LinesAt(k)
        fb == FirstBlock(ls)
    IN  faultAt = 0 /\ fb.clean /\ fb.end = Len(ls) + 1

\* C11: when the end of the input is reached while the mapping is not empty
\* (no blank line ends the last block, its last line ended by a newline or
\* not, comment lines after it or not), from_read finalizes the block: it
\* returns what the block's pairs deserialize to, which is what it returns
\* when a blank line follows the block.
C11_EndOfInputFinalizes ==
    \A k \in 1..Len(calls) :
        EndsInBlock(k) =>
            /\ calls[k].result
                = parse_transaction(BlockMap(FirstBlock(LinesAt(k)).lines))
            /\ calls[k].result = from_read(WithBlankLine(Rest(k)), 0, 0).result
            /\ calls[k].end = Len(input)

\* A record was returned for a block whose last key/value line the end of
\* the input cuts short, with no newline
C11_Witness ==
    \E k \in 1..Len(calls) :
        /\ EndsInBlock(k)
        /\ calls[k].result.kind = "Ok"
        /\ input[Len(input)] # NL
        /\ IsKeyValueLine(LinesAt(k)[Len(LinesAt(k))])

RECURSIVE WithoutComments(_, _)
\* The stream s from byte i on, with its comment lines deleted, each with
\* its newline
WithoutComments(s, i) ==
    IF i > Len(s) THEN <<>>
    ELSE LET nls == { j \in i..Len(s) : s[j] = NL }
             j == IF nls = {} THEN Len(s) + 1
                  ELSE CHOOSE n \in nls : \A h \in nls : n <= h
             line == SubSeq(s, i, j - 1)
             rest == WithoutComments(s, j + 1)
         IN  IF IsCommentLine(line) THEN rest
             ELSE IF j > Len(s) THEN line
             ELSE Append(line, NL) \o rest

RECURSIVE Results(_, _, _)
\* The results of n from_read calls in a row on data, from cursor p
Results(data, p, n) ==
    IF n = 0 THEN <<>>
    ELSE LET r == from_read(data, 0, p)
         IN  <<r.result>> \o Results(data, r.pos, n - 1)

\* Every line of the input is text
TextInput == faultAt = 0 /\ \A i \in 1..Len(input) : input[i] # BadByte

WireName ==
    [Deposit |-> <<"DEPOSIT">>, Transfer |-> <<"TRANSFER">>,
     Withdrawal |-> <<"WITHDRAWAL">>, Pending |-> <<"PENDING">>,
     Success |-> <<"SUCCESS">>, Failure |-> <<"FAILURE">>]

\* The text d is the decimal numeral of n: digits only, no leading zero
IsDecimalOf(d, n) ==
    /\ d # <<>>
    /\ \A i \in 1..Len(d) : d[i] \in Digit
    /\ StripZeros(d) = d
    /\ DigitsValue(d, 0) = n

\* The line l is "KEY: value" for the i-th field of record r
IsFieldLine(l, i, r) ==
    /\ Len(l) >= 3
    /\ SubSeq(l, 1, 3) = <<FieldNames[i], COLON, " ">>
    /\ LET v == SubSeq(l, 4, Len(l))
       IN  CASE i = 1 -> IsDecimalOf(v, r.id)
             [] i = 2 -> v = WireName[r.transaction_type]
             [] i = 3 -> IsDecimalOf(v, r.from_user_id)
             [] i = 4 -> IsDecimalOf(v, r.to_user_id)
             [] i = 5 -> IsDecimalOf(v, r.amount)
             [] i = 6 -> IsDecimalOf(v, r.timestamp)
             [] i = 7 -> v = WireName[r.transaction_status]
             [] i = 8 -> v = r.description

\* The bytes out are nine lines, each ended by a newline: the eight fields
\* of r in the canonical order, then an empty line
IsNineLinesOf(out, r) ==
    LET ls == SplitLines(out, <<>>)
    IN  /\ out # <<>> /\ out[Len(out)] = NL
        /\ Len(ls) = 9
        /\ \A i \in 1..8 : IsFieldLine(ls[i], i, r)
        /\ ls[9] = <<>>

\* C13: write_to on a sink that takes every write appends exactly nine
\* lines for one record: the eight fields as 'KEY: value' in the fixed
\* order, integers in decimal, enumerations by their wire names, the
\* description unchanged, then one empty line; the bytes already in the
\* sink stay as they were.
C13_WriteAppendsNineLines ==
    [][ written' # written =>
            /\ Len(input') >= Len(input)
            /\ SubSeq(input', 1, Len(input)) = input
            /\ IsNineLinesOf(SubSeq(input', Len(input) + 1, Len(input')),
                             written'[Len(written')]) ]_vars

\* What holds instead: the bytes already in the sink stay, and a record
\* whose description holds no newline is appended as nine lines
C13_NineLinesWithoutNewline ==
    [][ written' # written =>
            /\ Len(input') >= Len(input)
            /\ SubSeq(input', 1, Len(input)) = input
            /\ LET r == written'[Len(written')]
               IN  (\A i \in 1..Len(r.description) : r.description[i] # NL)
                   => IsNineLinesOf(
                        SubSeq(input', Len(input) + 1, Len(input')), r) ]_vars

(***************************************************************************)
(* The claims on Serializer and the tabular writer                         *)
(***************************************************************************)
RECURSIVE JoinCommas(_)
\* The names, a comma between each two
JoinCommas(names) ==
    IF Len(names) = 1 THEN <<names[1]>>
    ELSE <<Head(names), COMMA>> \o JoinCommas(Tail(names))

\* The header line of the tabular format
HeaderLine == Append(JoinCommas(FieldNames), NL)

RECURSIVE SplitCommas(_, _)
\* The text s cut at its first n commas: the n fields before them, then
\* the rest
SplitCommas(s, n) ==
    LET i == FirstIndex(s, COMMA)
    IN  IF n = 0 \/ i = 0 THEN <<s>>
        ELSE <<SubSeq(s, 1, i - 1)>>
             \o SplitCommas(SubSeq(s, i + 1, Len(s)), n - 1)

RECURSIVE IsDoubled(_, _)
\* The text q is the text d with every '"' doubled and nothing else changed
IsDoubled(q, d) ==
    IF d = <<>> THEN q = <<>>
    ELSE IF Head(d) = QUOTE
    THEN Len(q) >= 2 /\ q[1] = QUOTE /\ q[2] = QUOTE
         /\ IsDoubled(SubSeq(q, 3, Len(q)), Tail(d))
    ELSE q # <<>> /\ Head(q) = Head(d) /\ IsDoubled(Tail(q), Tail(d))

\* The bytes row are the row of record r: seven unquoted fields and the
\* quoted description, commas between them, a newline at the end
IsRowOf(row, r) ==
    LET f == SplitCommas(row, 7)
    IN  /\ Len(f) = 8
        /\ IsDecimalOf(f[1], r.id)
        /\ f[2] = WireName[r.transaction_type]
        /\ IsDecimalOf(f[3], r.from_user_id)
        /\ IsDecimalOf(f[4], r.to_user_id)
        /\ IsDecimalOf(f[5], r.amount)
        /\ IsDecimalOf(f[6], r.timestamp)
        /\ f[7] = WireName[r.transaction_status]
        /\ Len(f[8]) >= 3
        /\ f[8][1] = QUOTE
        /\ f[8][Len(f[8]) - 1] = QUOTE
        /\ f[8][Len(f[8])] = NL
        /\ IsDoubled(SubSeq(f[8], 2, Len(f[8]) - 2), r.description)

\* The bytes hold one newline, their last byte
IsOneLine(bytes) ==
    /\ bytes # <<>>
    /\ \A i \in 1..Len(bytes) : bytes[i] = NL <=> i = Len(bytes)

RECURSIVE IsRowsOf(_, _, _)
\* The bytes are the rows of the records rs, one after the other, each of
\* them one line when oneLine is set
IsRowsOf(bytes, rs, oneLine) ==
    IF rs = <<>> THEN bytes = <<>>
    ELSE \E c \in 1..Len(bytes) :
            /\ IsRowOf(SubSeq(bytes, 1, c), Head(rs))
            /\ oneLine => IsOneLine(SubSeq(bytes, 1, c))
            /\ IsRowsOf(SubSeq(bytes, c + 1, Len(bytes)), Tail(rs), oneLine)

RECURSIVE RowBytes(_)
\* The rows of the records rs, one after the other
RowBytes(rs) == IF rs = <<>> THEN <<>> ELSE CsvRow(Head(rs)) \o RowBytes(Tail(rs))

\* The sink of call e takes every write of the call
AcceptsAll(e) ==
    ~e.room.some \/ Len(CsvHeader) + Len(RowBytes(e.records)) <= e.room.val

\* The write steps 0 (the header), 1, ..., n (the records), in order
StepsTo(n) == [i \in 1..(n + 1) |-> i - 1]

\* The bytes call e added to the sink
Emitted(e) == SubSeq(e.after, Len(e.before) + 1, Len(e.after))

\* C14: serialize on a sink that takes every write emits the header first,
\* then each record of the slice in input order, one write step for each
\* and nothing between; for an empty slice it emits the header alone; it
\* returns Ok.
C14_HeaderThenRecords ==
    \A c \in 1..Len(serializes) :
        LET e == serializes[c]
        IN  AcceptsAll(e) =>
                /\ e.result = OkUnit
                /\ e.steps = StepsTo(Len(e.records))
                /\ e.after = e.before \o HeaderLine \o RowBytes(e.records)

\* A slice of two different records was serialized, and then an empty one
C14_Witness ==
    /\ Len(serializes) = 2
    /\ AcceptsAll(serializes[1]) /\ AcceptsAll(serializes[2])
    /\ Len(serializes[1].records) = 2
    /\ serializes[1].records[1] # serializes[1].records[2]
    /\ serializes[1].result = OkUnit
    /\ serializes[2].records = <<>>
    /\ Emitted(serializes[2]) = HeaderLine

\* The first write step of call e that the sink does not take whole
FailingStep(e) ==
    CHOOSE k \in 0..Len(e.records) :
        /\ Len(CsvHeader) + Len(RowBytes(SubSeq(e.records, 1, k))) > e.room.val
        /\ \A j \in 0..(k - 1) :
            Len(CsvHeader) + Len(RowBytes(SubSeq(e.records, 1, j))) <= e.room.val

\* C15: when the write of the header or of record k fails, serialize
\* returns that error, makes no write for a record after k, and leaves in
\* the sink all that was written before the failure.
C15_StopsAtFirstFailure ==
    \A c \in 1..Len(serializes) :
        LET e == serializes[c]
        IN  ~AcceptsAll(e) =>
                LET k == FailingStep(e)
                    whole == HeaderLine \o RowBytes(e.records)
                    done == IF k = 0 THEN <<>>
                            ELSE HeaderLine
                                 \o RowBytes(SubSeq(e.records, 1, k - 1))
                IN  /\ e.result = IoError(k)
                    /\ e.steps = StepsTo(k)
                    /\ Len(e.after) >= Len(e.before) + Len(done)
                    /\ SubSeq(e.after, 1, Len(e.before) + Len(done))
                         = e.before \o done
                    /\ Len(Emitted(e)) < Len(whole)
                    /\ Emitted(e) = SubSeq(whole, 1, Len(Emitted(e)))
                    /\ Len(Emitted(e))
                         < Len(done) + (IF k = 0 THEN Len(HeaderLine)
                                        ELSE Len(CsvRow(e.records[k])))

\* The write of the first of two records failed half-way, after the header
C15_Witness ==
    \E c \in 1..Len(serializes) :
        LET e == serializes[c]
        IN  /\ Len(e.records) = 2
            /\ ~AcceptsAll(e)
            /\ e.result = IoError(1)
            /\ e.steps = <<0, 1>>
            /\ Len(Emitted(e)) > Len(HeaderLine)

RECURSIVE AllRecords(_)
\* The records of the calls es, in order
AllRecords(es) ==
    IF es = <<>> THEN <<>> ELSE Head(es).records \o AllRecords(Tail(es))

\* C16: over a sequence of serialize calls on one Serializer the header is
\* emitted once, before the first record: a second call does not emit it
\* again.
C16_HeaderOnce ==
    (serializes # <<>> /\ ~serializes[1].room.some) =>
        /\ target = serializes[1].before \o HeaderLine
                    \o RowBytes(AllRecords(serializes))
        /\ \A c \in 2..Len(serializes) : serializes[c].steps[1] # 0

\* C17 as stated: the write of one record emits one line, the eight fields
\* in header order with commas between them, the first seven unquoted, the
\* description in double quotes with every '"' in it doubled and nothing
\* else changed; the header line before the rows is the eight names with
\* commas between them.
C17_Original ==
    \A c \in 1..Len(serializes) :
        LET e == serializes[c]
        IN  AcceptsAll(e) =>
                /\ Len(Emitted(e)) >= Len(HeaderLine)
                /\ SubSeq(Emitted(e), 1, Len(HeaderLine)) = HeaderLine
                /\ IsRowsOf(SubSeq(Emitted(e), Len(HeaderLine) + 1,
                                   Len(Emitted(e))), e.records, TRUE)

\* C17, amended: the write of one record emits one row ended by a newline,
\* the fields as stated; a newline of the description is emitted unchanged
\* between the quotes, so the row is one line only when the description
\* holds no newline.
C17_RowFormat ==
    \A c \in 1..Len(serializes) :
        LET e == serializes[c]
        IN  AcceptsAll(e) =>
                /\ Len(Emitted(e)) >= Len(HeaderLine)
                /\ SubSeq(Emitted(e), 1, Len(HeaderLine)) = HeaderLine
                /\ IsRowsOf(SubSeq(Emitted(e), Len(HeaderLine) + 1,
                                   Len(Emitted(e))), e.records, FALSE)
                /\ \A i \in 1..Len(e.records) :
                    (\A j \in 1..Len(e.records[i].description) :
                        e.records[i].description[j] # NL)
                    => IsOneLine(CsvRow(e.records[i]))

\* A record whose description holds two quotes, a comma and a newline was
\* written after one with a plain description
C17_Witness ==
    \E c \in 1..Len(serializes) :
        LET e == serializes[c]
        IN  /\ AcceptsAll(e)
            /\ e.records = <<Record1, RecordQ>>
            /\ e.result = OkUnit

\* C18: the decoder keeps nothing between calls: the result of a from_read
\* call and the bytes it consumes are those of a call on a fresh reader
\* over the bytes left when the call starts, whatever the earlier calls
\* returned; each call starts with an empty mapping.
C18_CallsAreIndependent ==
    \A k \in 1..Len(calls) :
        faultAt = 0 =>
            LET f == from_read(Rest(k), 0, 0)
            IN  /\ calls[k].result = f.result
                /\ calls[k].end = calls[k].start + f.pos

\* A call failed on a line with no ':' after it had read four key/value
\* lines of a block; the next call read the other four lines and found
\* keys missing: the first four were not carried over
C18_Witness ==
    \E k \in 1..(Len(calls) - 1) :
        LET ls == LinesAt(k)
            ms == LinesAt(k + 1)
        IN  /\ calls[k].result = MissingColonAfterKey
            /\ calls[k + 1].result = ParseError
            /\ Len(ls) >= 9 /\ Len(ms) >= 4
            /\ \A i \in 1..4 : IsKeyValueLine(ls[i]) /\ IsKeyValueLine(ms[i])
            /\ IsNoColonLine(ls[5])
            /\ { KeyOf(ls[i]) : i \in 1..4 } \cup { KeyOf(ms[i]) : i \in 1..4 }
                 = FieldKeys
            /\ FirstBlock(ms).clean /\ Len(FirstBlock(ms).lines) = 4

\* Some key is on several lines of the block b
HasRepeatedKey(b) ==
    Cardinality({ KeyOf(b[i]) : i \in 1..Len(b) }) < Len(b)

\* C19: when a key is on several lines of one block, the record is built
\* from the value of the last of them: the repeated key is no error, and
\* the earlier values have no effect on the result.
C19_LastValueWins ==
    \A k \in 1..Len(calls) :
        LET fb == FirstBlock(LinesAt(k))
        IN  (faultAt = 0 /\ fb.clean /\ HasRepeatedKey(fb.lines)) =>
                /\ calls[k].result = parse_transaction(BlockMap(fb.lines))
                /\ \A r \in SampleRecords :
                    BlockMap(fb.lines) = BlockMap(RecordLines(r))
                    => calls[k].result = Ok(r)

\* A record was read from a block that holds TX_ID twice, a value that is
\* no number first
C19_Witness ==
    \E k \in 1..Len(calls) :
        LET fb == FirstBlock(LinesAt(k))
        IN  /\ fb.clean
            /\ Len(fb.lines) = 9
            /\ KeyOf(fb.lines[1]) = <<"TX_ID">>
            /\ ValueOf(fb.lines[1]) = <<"x">>
            /\ KeyOf(fb.lines[2]) = <<"TX_ID">>
            /\ calls[k].result = Ok(Record1)

\* How many ':' the line l holds
Colons(l) == Cardinality({ i \in 1..Len(l) : l[i] = COLON })

\* C20: a key/value line is split at its first ':' only: the key is the
\* trimmed text before it and the value the trimmed text after it, so a
\* value that holds ':' is kept whole and is no structural error.
C20_SplitAtFirstColon ==
    \A k \in 1..Len(calls) :
        LET fb == FirstBlock(LinesAt(k))
        IN  ( /\ faultAt = 0
              /\ fb.clean
              /\ \E i \in 1..Len(fb.lines) : Colons(fb.lines[i]) > 1 ) =>
                /\ calls[k].result = parse_transaction(BlockMap(fb.lines))
                /\ calls[k].result # MissingColonAfterKey
                /\ \A r \in SampleRecords :
                    IsBlockOf(fb.lines, r) => calls[k].result = Ok(r)

\* A record was read whose description holds two ':', from a line with
\* three
C20_Witness ==
    \E k \in 1..Len(calls) :
        LET fb == FirstBlock(LinesAt(k))
        IN  /\ fb.clean
            /\ \E i \in 1..Len(fb.lines) :
                /\ Colons(fb.lines[i]) = 3
                /\ KeyOf(fb.lines[i]) = <<"DESCRIPTION">>
            /\ calls[k].result.kind = "Ok"
            /\ Colons(calls[k].result.rec.description) = 2

(***************************************************************************)
(* The claim on a fault of the byte source                                 *)
(***************************************************************************)
\* The whole lines of the text p: its lines, but for the last when no
\* newline ends it
WholeLines(p) ==
    LET ls == SplitLines(p, <<>>)
    IN  IF p # <<>> /\ p[Len(p)] # NL THEN SubSeq(ls, 1, Len(ls) - 1) ELSE ls

\* The lines call k has read in full when it asks for the byte that fails
LinesBeforeFault(k) ==
    WholeLines(SubSeq(input, calls[k].start + 1, faultAt - 1))

\* Call k asks for the byte that fails: the lines before that byte are
\* text, none of them lacks its ':' and none is a blank line that ends a
\* block
ReachesFault(k) ==
    LET done == LinesBeforeFault(k)
    IN  /\ faultAt # 0
        /\ calls[k].start < faultAt
        /\ \A i \in 1..Len(done) :
            /\ IsText(done[i])
            /\ ~IsNoColonLine(done[i])
            /\ IsBlankLine(done[i]) => \A j \in 1..(i - 1) : ~IsEntryLine(done[j])

\* C21: when the byte source reports a fault during from_read, the call
\* returns ReadLineError at once: it does not read on, and it does not
\* finalize the pairs it has accumulated, even when they are all eight
\* keys; a call that does not meet the fault returns what it returns on a
\* source with no fault.
C21_FaultIsReturnedAtOnce ==
    \A k \in 1..Len(calls) :
        LET c == calls[k]
            f0 == from_read(input, 0, c.start)
        IN  /\ ReachesFault(k) => c.result = ReadLineError /\ c.end = faultAt - 1
            /\ c.result = ReadLineError => ReachesFault(k)
            /\ c.result # ReadLineError => c.result = f0.result /\ c.end = f0.pos

\* The read failed right after the eight key/value lines of a record, each
\* read in full, and the call returned the fault, not the record
C21_Witness ==
    \E k \in 1..Len(calls) :
        LET done == LinesBeforeFault(k)
        IN  /\ ReachesFault(k)
            /\ Len(done) = 8
            /\ IsBlockOf(done, Record1)
            /\ input[faultAt - 1] = NL
            /\ calls[k].result = ReadLineError

(***************************************************************************)
(* The claim on the termination of from_read                               *)
(***************************************************************************)
\* The calls made step by step return what from_read returns, and leave
\* the cursor where it leaves it
StepsFollowFromRead ==
    \A k \in 1..Len(calls) :
        LET f == from_read(input, faultAt, calls[k].start)
        IN  calls[k].result = f.result /\ calls[k].end = f.pos

\* C22: every from_read call on a finite stream, whose source reports zero
\* bytes at the end of the input for as long as it is asked, returns: with
\* one record or one error, for every arrangement of blank lines, comments
\* and key/value lines, a comment as the last line with no newline
\* included.
C22_FromReadReturns == frame.some ~> ~frame.some

\* A call returned at the end of an input whose last line is a comment
\* with no newline after it
C22_Witness ==
    /\ ~frame.some
    /\ faultAt = 0
    /\ Len(calls) = 1
    /\ calls[1].end = Len(input)
    /\ calls[1].result.kind = "Ok"
    /\ input[Len(input)] # NL
    /\ IsCommentLine(InputLines[Len(InputLines)])

(***************************************************************************)
(* The claim on the bytes a call consumes                                  *)
(***************************************************************************)
RECURSIVE BytesOf(_, _)
\* The bytes the first n lines of ls take, each with its newline
BytesOf(ls, n) ==
    IF n = 0 THEN 0 ELSE BytesOf(ls, n - 1) + Len(ls[n]) + 1

\* C23: a from_read call that returns a record has consumed the stream up
\* to and including the newline of the blank line that ended the block, or
\* up to the end of the input, and no byte beyond: the next call starts on
\* the line after that blank line, and no line of the next block is lost.
C23_ConsumesOneBlock ==
    \A k \in 1..Len(calls) :
        (faultAt = 0 /\ calls[k].result.kind = "Ok") =>
            LET ls == LinesAt(k)
                t == BlockEnd(ls)
                upto == calls[k].start + BytesOf(ls, IF t > Len(ls) THEN 0 ELSE t)
            IN  /\ calls[k].end = IF t > Len(ls) \/ upto > Len(input)
                                  THEN Len(input) ELSE upto
                /\ k < Len(calls) =>
                    /\ calls[k + 1].start = calls[k].end
                    /\ LinesAt(k + 1) = SubSeq(ls, t + 1, Len(ls))

\* Two records were read one after the other, the second from the line
\* right after the blank line that ended the first block
C23_Witness ==
    /\ Len(calls) >= 2
    /\ faultAt = 0
    /\ calls[1].result.kind = "Ok"
    /\ calls[2].result.kind = "Ok"
    /\ calls[1].end < Len(input)
    /\ input[calls[1].end] = NL
    /\ IsBlankLine(SplitLines(SubSeq(input, 1, calls[1].end), <<>>)
                    [Len(SplitLines(SubSeq(input, 1, calls[1].end), <<>>))])
    /\ IsKeyValueLine(LinesAt(2)[1])

(***************************************************************************)
(* The claim on the exhaustion of Parser                                   *)
(***************************************************************************)
\* What is left of the source when call i of next() starts holds no record
\* and no defect: no row, or no byte but those of blank lines
AtEndOfInput(i) ==
    IF fmt = "csv" THEN nexts[i].start >= Len(input)
    ELSE OnlyBlankOrComment(
            SplitLines(SubSeq(input, nexts[i].start + 1, Len(input)), <<>>))

\* The error the read step reports for the end of the input
EndOfInputError(i) ==
    IF fmt = "csv" THEN "UnexpectedEof"
    ELSE IF nexts[i].start >= Len(input) THEN "SourceIsEmpty"
    ELSE "EmptyLinesAtEndOfFile"

\* C24: in every state of a Parser, next() has returned None at least once
\* if and only if read_error is set; there is no clean exhaustion: at the
\* end of the input the read step reports an error (UnexpectedEof for the
\* tabular format, SourceIsEmpty or EmptyLinesAtEndOfFile for the block
\* format), next() returns None and the error is stored in read_error.
C24_NoneIffReadError ==
    /\ (\E i \in 1..Len(nexts) : ~nexts[i].item.some) <=> read_error.some
    /\ \A i \in 1..Len(nexts) :
        AtEndOfInput(i) =>
            /\ ~nexts[i].item.some
            /\ nexts[i].read_error = Some(EndOfInputError(i))

\* A record was yielded, then the end of a tabular source was met: next()
\* returned None and read_error holds UnexpectedEof
C24_Witness ==
    /\ fmt = "csv"
    /\ Len(nexts) = 2
    /\ nexts[1].item.some
    /\ AtEndOfInput(2)
    /\ ~nexts[2].item.some
    /\ read_error = Some("UnexpectedEof")

====
